---- MODULE Spec2Model ----
(***************************************************************************)
(* A model of @electron/universal: makeUniversalApp (src/src/index.ts),    *)
(* the file classifier, and the archive merger mergeASARs                  *)
(* (src/src/asar-utils.ts).  The file system is a set of trees (functions  *)
(* from relative paths to file contents); one invocation of                *)
(* makeUniversalApp runs step by step, every external tool (cp, lipo, mv)  *)
(* either succeeding or exiting non-zero.  The file(1) probe of the        *)
(* classifier and the fs-extra calls on paths that exist are taken to      *)
(* succeed; a read of a missing path throws.                               *)
(***************************************************************************)
EXTENDS Integers, Sequences, FiniteSets, TLC

\* The two input bundles differ from the nominal pair of bundles in at most
\* MaxDiffs (side, file) positions.
MaxDiffs == 2

(***************************************************************************)
(* File contents.  magic is what the first four bytes say, body the rest   *)
(* of the bytes, meta the structured payload of a plist or an archive.     *)
(***************************************************************************)
NoFile == [magic |-> "absent", body |-> "-", meta |-> {}]
Dir == [magic |-> "dir", body |-> "-", meta |-> {}]
Txt(d) == [magic |-> "none", body |-> d, meta |-> {}]
Thin(arch) == [magic |-> "thin", body |-> arch, meta |-> {}]
Fat(d) == [magic |-> "fat", body |-> d, meta |-> {}]
\* A property list: its other keys, and its ElectronAsarIntegrity key, which is
\* absent or holds a set of <<archive path, hash>> entries.
NoIntegrity == <<>>
Integrity(entries) == <<entries>>
Plist(keys, integrity) == [magic |-> "plist", body |-> keys, meta |-> integrity]
Asar(entries) == [magic |-> "asar", body |-> "-", meta |-> entries]

\* Two files have the same bytes.
SameContent(c1, c2) == c1.magic = c2.magic /\ c1.body = c2.body /\ c1.meta = c2.meta

\* sha(filePath): the hex digest of a file's bytes; equal digests iff equal bytes.
sha_Const(c) == <<"sha256">>
sha(c) == <<"sha256", c.magic, c.body, c.meta>>

MACHO_MAGIC == {"thin"}
MACHO_UNIVERSAL_MAGIC == {"fat"}

\* readMachOHeader: the first four bytes of the file.
readMachOHeader(c) == c.magic

isUniversalMachO_Never(header) == FALSE
isUniversalMachO(header) == header \in MACHO_UNIVERSAL_MAGIC

(***************************************************************************)
(* Paths are sequences of segments, relative to the bundle root.           *)
(***************************************************************************)
Resources == <<"Contents", "Resources">>
PlistPath == <<"Contents", "Info.plist">>
ExePath == <<"Contents", "MacOS", "Electron">>
NibPath == Resources \o <<"MainMenu.nib", "keyedobjects.nib">>
PlainPath == Resources \o <<"icon.icns">>
SnapPath == Resources \o <<"v8_context_snapshot.bin">>
WebappPath == Resources \o <<"webapp.asar">>
AsarPath == Resources \o <<"app.asar">>
UnpackedRoot == Resources \o <<"app.asar.unpacked">>
LooseRoot == Resources \o <<"app">>
X64AsarPath == Resources \o <<"app-x64.asar">>
Arm64AsarPath == Resources \o <<"app-arm64.asar">>
X64UnpackedRoot == Resources \o <<"app-x64.asar.unpacked">>
Arm64UnpackedRoot == Resources \o <<"app-arm64.asar.unpacked">>
X64LooseRoot == Resources \o <<"app-x64">>
Arm64LooseRoot == Resources \o <<"app-arm64">>

\* Entries of the application payload (inside app.asar or under app/).
PkgJson == <<"package.json">>
ExtraTxt == <<"extra.txt">>
BNode == <<"b.node">>
DataBin == <<"data.bin">>
WebAsar == <<"web.asar">>
LibDir == <<"lib">>
FileEntries == {PkgJson, ExtraTxt, BNode, DataBin, WebAsar}
EntryOrder == <<BNode, DataBin, ExtraTxt, LibDir, PkgJson, WebAsar>>

basename(p) == p[Len(p)]
dirname(p) == SubSeq(p, 1, Len(p) - 1)
endsWithAsar(p) ==
  basename(p) \in {"app.asar", "app-x64.asar", "app-arm64.asar", "webapp.asar", "web.asar"}
endsWithBin(p) == basename(p) \in {"v8_context_snapshot.bin", "data.bin"}
IsPrefix(r, p) == Len(r) <= Len(p) /\ SubSeq(p, 1, Len(r)) = r
Rebase(p, from, to) == to \o SubSeq(p, Len(from) + 1, Len(p))

\* A tree without the paths under root, and the paths under root of a tree.
Under(tree, root) == {p \in DOMAIN tree : IsPrefix(root, p)}
Restrict(tree, S) == [p \in S |-> tree[p]]
Without(tree, root) == Restrict(tree, DOMAIN tree \ Under(tree, root))
Overlay(t1, t2) == [p \in DOMAIN t1 \cup DOMAIN t2 |-> IF p \in DOMAIN t2 THEN t2[p] ELSE t1[p]]
EmptyTree == [p \in {} |-> NoFile]
Single(p, c) == [q \in {p} |-> c]
\* The subtree of tree under from, re-rooted at to.
Moved(tree, from, to) ==
  [q \in {Rebase(p, from, to) : p \in Under(tree, from)} |-> tree[Rebase(q, to, from)]]

(***************************************************************************)
(* Archives.  The meta of an archive is its manifest: one record per       *)
(* entry, with the entry's size and digest (data).  The bytes of a packed  *)
(* file are in the archive, those of an unpacked file live next to it      *)
(* under <archive>.unpacked.                                               *)
(***************************************************************************)
EntryRec(e, isDir, unp, c) == [path |-> e, dir |-> isDir, unpacked |-> unp, data |-> c]

\* asar.listPackage(archive).map(toRelativePath), as a set and in listing order.
listPackage(archive) == {r.path : r \in archive.meta}
Reverse(s) == [i \in 1..Len(s) |-> s[Len(s) + 1 - i]]
\* The body of an archive names the order in which its header lists the file
\* entries: "-" the order of EntryOrder, "rev" the reverse, "mixed" another.
headerOrder(files) ==
  LET sorted == SelectSeq(EntryOrder, LAMBDA e : e \in {files[i] : i \in 1..Len(files)})
  IN IF files = sorted THEN "-" ELSE IF files = Reverse(sorted) THEN "rev" ELSE "mixed"
Listed(archive, order) == [archive EXCEPT !.body = order]
listPackageSeq(archive) ==
  LET sorted == SelectSeq(EntryOrder, LAMBDA e : e \in listPackage(archive))
  IN IF archive.body = "rev" THEN Reverse(sorted) ELSE sorted

\* asar.statFile(archive, file)
statFile(archive, e) == CHOOSE r \in archive.meta : r.path = e

isDirectory(archive, e) == statFile(archive, e).dir

\* asar.extractFile(archivePath, file): the bytes of an entry of the archive at
\* asarPath in tree; an unpacked entry is read from <asarPath>.unpacked.
unpackedRootOf(asarPath) ==
  IF asarPath = AsarPath THEN UnpackedRoot
  ELSE IF asarPath = X64AsarPath THEN X64UnpackedRoot ELSE Arm64UnpackedRoot
extractFile(tree, asarPath, e) ==
  LET r == statFile(tree[asarPath], e) IN
  IF r.unpacked
    THEN (IF unpackedRootOf(asarPath) \o e \in DOMAIN tree
            THEN tree[unpackedRootOf(asarPath) \o e] ELSE NoFile)
    ELSE r.data

\* asar.extractAll(archivePath, dest): every entry, as a directory tree.
extractAll(tree, asarPath) ==
  [e \in listPackage(tree[asarPath]) |->
     IF isDirectory(tree[asarPath], e) THEN Dir ELSE extractFile(tree, asarPath, e)]

\* A further archive an application ships next to its main one.
WebArchive == Asar({EntryRec(<<"index.html">>, FALSE, FALSE, Txt("D1"))})

(***************************************************************************)
(* Input bundles.  A bundle is described by what each of its files holds;  *)
(* BundleTree builds the file tree.                                        *)
(***************************************************************************)
\* A payload entry of a bundle: its bytes and whether the archive keeps it unpacked.
Entry(c, unp) == [c |-> c, unp |-> unp]
PayloadSlot(cfg, e) ==
  IF e = PkgJson THEN cfg.pj ELSE IF e = ExtraTxt THEN cfg.extra
  ELSE IF e = DataBin THEN cfg.bin ELSE IF e = WebAsar THEN cfg.web ELSE cfg.bnode
PayloadEntries(cfg) == {e \in FileEntries : PayloadSlot(cfg, e).c # NoFile}
PayloadContent(cfg, e) == PayloadSlot(cfg, e).c
PayloadUnpacked(cfg, e) == PayloadSlot(cfg, e).unp

BundleArchive(cfg) ==
  Listed(Asar({EntryRec(e, FALSE, PayloadUnpacked(cfg, e), PayloadContent(cfg, e))
                 : e \in PayloadEntries(cfg)}
              \cup (IF cfg.lib THEN {EntryRec(LibDir, TRUE, FALSE, Dir)} ELSE {})),
         IF cfg.rev /\ Cardinality(PayloadEntries(cfg)) > 1 THEN "rev" ELSE "-")

FixedFiles(cfg) ==
  LET slots == <<PlistPath, ExePath, NibPath, PlainPath, SnapPath, WebappPath>>
      vals == <<cfg.plist, cfg.exe, cfg.nib, cfg.plain, cfg.snap, cfg.webapp>>
      present == {i \in 1..6 : vals[i] # NoFile}
  IN [p \in {slots[i] : i \in present} |-> vals[CHOOSE i \in present : slots[i] = p]]

PayloadFiles(cfg) ==
  IF cfg.mode = "asar"
    THEN Overlay(Single(AsarPath, BundleArchive(cfg)),
                 [p \in {UnpackedRoot \o e : e \in {f \in PayloadEntries(cfg) : PayloadUnpacked(cfg, f)}}
                    |-> PayloadContent(cfg, Rebase(p, UnpackedRoot, <<>>))])
    ELSE Overlay([p \in {LooseRoot \o e : e \in PayloadEntries(cfg)}
                    |-> PayloadContent(cfg, Rebase(p, LooseRoot, <<>>))],
                 IF cfg.lib THEN Single(LooseRoot \o LibDir, Dir) ELSE EmptyTree)

BundleTree(cfg) == Overlay(FixedFiles(cfg), PayloadFiles(cfg))

(***************************************************************************)
(* The inputs of one invocation: the options, what is at outAppPath, and   *)
(* the two bundles.  Nominal is a pair of bundles that merges cleanly with *)
(* default options; the inputs differ from it in at most MaxDiffs places.  *)
(***************************************************************************)
\* The ElectronAsarIntegrity key an earlier build left in a plist.
OldIntegrity == Integrity(<< <<SubSeq(AsarPath, 2, Len(AsarPath)), sha(Txt("old"))>> >>)

\* The Info.plist of a bundle nested in Resources: a pattern can name it.
SubAppPlist == Resources \o <<"SubApp-1.app", "Contents", "Info.plist">>
Undefined == [set |-> FALSE, matches |-> {}]
Pattern(S) == [set |-> TRUE, matches |-> S]
\* minimatch(path, pattern, {matchBase: true}): a pattern is the set of paths it matches.
minimatch_Any(p, pattern) == TRUE
minimatch(p, pattern) == p \in pattern.matches

Modes == {"asar", "loose"}

\* The nominal pairs: both bundles packed (with or without mergeASARs), both loose.
\* twin: the arm64 bundle is nominally a copy of the x64 bundle.
\* assets: both archives nominally hold an unpacked extra.txt next to package.json.
Bases ==
  {[mode |-> m[1], mergeASARs |-> m[2], twin |-> t, assets |-> FALSE] :
     m \in {<<"asar", FALSE>>, <<"asar", TRUE>>, <<"loose", FALSE>>}, t \in BOOLEAN}
    \cup {[mode |-> "asar", mergeASARs |-> TRUE, twin |-> FALSE, assets |-> TRUE]}

NominalBundle(mode, arch) ==
  [mode |-> mode, plist |-> Plist("K1", NoIntegrity), exe |-> Thin(arch), plain |-> Txt("D1"),
   nib |-> Txt("D1"), snap |-> Txt(arch), pj |-> Entry(Txt("D1"), FALSE),
   extra |-> Entry(NoFile, FALSE), bnode |-> Entry(NoFile, FALSE),
   bin |-> Entry(NoFile, FALSE), web |-> Entry(NoFile, FALSE), webapp |-> NoFile,
   lib |-> FALSE, rev |-> FALSE]

NominalOpts(merge) ==
  [darwin |-> TRUE, x64Abs |-> TRUE, arm64Abs |-> TRUE, outAbs |-> TRUE,
   outExists |-> FALSE, force |-> FALSE, mergeASARs |-> merge,
   singleArchFiles |-> Undefined, x64ArchFiles |-> Undefined,
   infoPlistsToIgnore |-> Undefined]

WithAssets(base, bundle) ==
  IF base.assets THEN [bundle EXCEPT !.extra = Entry(Txt("D1"), TRUE)] ELSE bundle
Nominal(base) ==
  [x |-> WithAssets(base, NominalBundle(base.mode, "x64")),
   a |-> WithAssets(base, NominalBundle(base.mode, IF base.twin THEN "x64" ELSE "arm64")),
   o |-> NominalOpts(base.mergeASARs)]

BundleDom ==
  [mode |-> Modes,
   plist |-> {Plist("K1", NoIntegrity), Plist("K2", NoIntegrity), Plist("K1r", NoIntegrity),
              Plist("K1", OldIntegrity), NoFile},
   exe |-> {Thin("x64"), Thin("arm64"), Fat("U1"), Fat("U2")},
   plain |-> {Txt("D1"), Txt("D2")},
   nib |-> {Txt("D1"), Txt("D2"), NoFile},
   snap |-> {Txt("x64"), Txt("arm64"), Thin("x64"), NoFile},
   pj |-> {Entry(Txt("D1"), FALSE), Entry(Txt("D2"), FALSE), Entry(NoFile, FALSE)},
   extra |-> {Entry(NoFile, FALSE), Entry(Txt("D1"), FALSE), Entry(Txt("D1"), TRUE)},
   bnode |-> {Entry(NoFile, FALSE), Entry(Thin("x64"), FALSE), Entry(Thin("arm64"), FALSE),
              Entry(Thin("x64"), TRUE), Entry(Thin("arm64"), TRUE), Entry(Fat("U1"), TRUE),
              Entry(Fat("U2"), TRUE)},
   bin |-> {Entry(NoFile, FALSE), Entry(Txt("x64"), FALSE), Entry(Txt("arm64"), FALSE)},
   web |-> {Entry(NoFile, FALSE), Entry(WebArchive, FALSE)},
   webapp |-> {NoFile, WebArchive},
   lib |-> BOOLEAN,
   rev |-> BOOLEAN]

OptsDom ==
  [darwin |-> BOOLEAN, x64Abs |-> BOOLEAN, arm64Abs |-> BOOLEAN, outAbs |-> BOOLEAN,
   outExists |-> BOOLEAN, force |-> BOOLEAN, mergeASARs |-> BOOLEAN,
   singleArchFiles |-> {Undefined, Pattern({ExtraTxt})},
   x64ArchFiles |-> {Undefined, Pattern({ExePath}), Pattern({UnpackedRoot \o BNode})},
   infoPlistsToIgnore |-> {Undefined, Pattern({PlistPath}), Pattern({SubAppPlist})}]

InputDom == [x |-> BundleDom, a |-> BundleDom, o |-> OptsDom]

\* The places where the inputs can differ from Nominal: every file of either
\* bundle, whether the arm64 bundle is built like the x64 one, every option.
Positions ==
  << <<"o", "darwin">>, <<"o", "x64Abs">>, <<"o", "arm64Abs">>, <<"o", "outAbs">>,
     <<"o", "outExists">>, <<"o", "force">>, <<"o", "mergeASARs">>,
     <<"o", "singleArchFiles">>, <<"o", "x64ArchFiles">>, <<"o", "infoPlistsToIgnore">>,
     <<"a", "mode">>,
     <<"x", "plist">>, <<"a", "plist">>, <<"x", "exe">>, <<"a", "exe">>,
     <<"x", "plain">>, <<"a", "plain">>, <<"x", "nib">>, <<"a", "nib">>,
     <<"x", "snap">>, <<"a", "snap">>, <<"x", "pj">>, <<"a", "pj">>,
     <<"x", "extra">>, <<"a", "extra">>, <<"x", "bnode">>, <<"a", "bnode">>,
     <<"x", "bin">>, <<"a", "bin">>, <<"x", "web">>, <<"a", "web">>,
     <<"x", "webapp">>, <<"a", "webapp">>,
     <<"x", "lib">>, <<"a", "lib">>, <<"x", "rev">>, <<"a", "rev">> >>
ValidationPositions == 1..4

DevValues(base, i) ==
  InputDom[Positions[i][1]][Positions[i][2]] \ {Nominal(base)[Positions[i][1]][Positions[i][2]]}

\* The sets of at most k deviations at positions lo and above, each a
\* sequence of <<position, value>> with increasing positions.
RECURSIVE Codes(_, _, _)
Codes(base, k, lo) ==
  IF k = 0 \/ lo > Len(Positions) THEN {<<>>}
  ELSE {<<>>} \cup
       UNION {{<< <<i, v>> >> \o rest : v \in DevValues(base, i), rest \in Codes(base, k - 1, i + 1)}
                : i \in lo..Len(Positions)}

RECURSIVE Decode(_, _, _)
Decode(s, code, j) ==
  IF j > Len(code) THEN s
  ELSE Decode([s EXCEPT ![Positions[code[j][1]][1]][Positions[code[j][1]][2]] = code[j][2]], code, j + 1)

\* Path and platform validation fails.
Invalid(o) == ~(o.darwin /\ o.x64Abs /\ o.arm64Abs /\ o.outAbs)

\* An invocation that validation rejects is drawn with nominal bundles only.
InputCodes(base) ==
  {code \in Codes(base, MaxDiffs, 1) :
     (\E j \in 1..Len(code) : code[j][1] \in ValidationPositions)
       => \A j \in 1..Len(code) : code[j][1] \in ValidationPositions}

(***************************************************************************)
(* File Classifier                                                         *)
(***************************************************************************)
ForEntries(root) ==
  <<root \o BNode, root \o DataBin, root \o ExtraTxt, root \o LibDir, root \o PkgJson,
    root \o WebAsar>>

\* The order in which traverse() meets the paths of a bundle (readdir order).
TraversalOrder ==
  <<PlistPath, ExePath, NibPath>>
    \o ForEntries(Arm64LooseRoot) \o <<Arm64AsarPath>> \o ForEntries(Arm64UnpackedRoot)
    \o ForEntries(X64LooseRoot) \o <<X64AsarPath>> \o ForEntries(X64UnpackedRoot)
    \o ForEntries(LooseRoot) \o <<AsarPath>> \o ForEntries(UnpackedRoot)
    \o <<PlainPath, SnapPath, WebappPath>>

fileType_BinFirst(p, c) ==
  IF endsWithAsar(p) THEN "APP_CODE"
  ELSE IF endsWithBin(p) THEN "SNAPSHOT"
  ELSE IF c.magic \in {"thin", "fat"} THEN "MACHO"
  ELSE IF basename(p) = "Info.plist" THEN "INFO_PLIST"
  ELSE "PLAIN"
\* The type getAllAppFiles gives the regular file at path p holding c.
fileType(p, c) ==
  IF endsWithAsar(p) THEN "APP_CODE"
  ELSE IF c.magic \in {"thin", "fat"} THEN "MACHO"
  ELSE IF endsWithBin(p) THEN "SNAPSHOT"
  ELSE IF basename(p) = "Info.plist" THEN "INFO_PLIST"
  ELSE "PLAIN"

AppFile(p, t) == [relativePath |-> p, type |-> t]

getAllAppFiles(tree) ==
  LET found == SelectSeq(TraversalOrder, LAMBDA p : p \in DOMAIN tree /\ tree[p].magic # "dir")
  IN [i \in 1..Len(found) |-> AppFile(found[i], fileType(found[i], tree[found[i]]))]

FilterType(files, t) == SelectSeq(files, LAMBDA f : f.type = t)
PathsOf(files) == {files[i].relativePath : i \in 1..Len(files)}

dupedFiles_NoPlist(files) ==
  SelectSeq(files, LAMBDA f : f.type \notin {"SNAPSHOT", "APP_CODE", "INFO_PLIST"})
dupedFiles(files) == SelectSeq(files, LAMBDA f : f.type # "SNAPSHOT" /\ f.type # "APP_CODE")

detectAsarMode_Const(app) == "HAS_ASAR"
detectAsarMode(app) == IF AsarPath \in DOMAIN app THEN "HAS_ASAR" ELSE "NO_ASAR"

(***************************************************************************)
(* The binary-fusion tool: lipo first second -create -output out.  Its     *)
(* inputs are Mach-O files, thin or universal; it refuses two inputs that  *)
(* hold the same architecture.                                             *)
(***************************************************************************)
LipoAccepts(first, second) ==
  /\ first.magic \in {"thin", "fat"}
  /\ second.magic \in {"thin", "fat"}
  /\ ~(first.magic = "thin" /\ second.magic = "thin" /\ first.body = second.body)
LipoOutput(first, second) ==
  Fat(IF {first.body, second.body} = {"x64", "arm64"} THEN "x64+arm64" ELSE "mixed")

(***************************************************************************)
(* State                                                                   *)
(***************************************************************************)
VARIABLES
  opts,        \* MakeUniversalOpts and the host platform
  x64App,      \* the tree at opts.x64AppPath
  arm64App,    \* the tree at opts.arm64AppPath
  out,         \* what is at opts.outAppPath
  tmpDir,      \* the scratch working directory: "none", "exists", "removed"
  tmpApp,      \* the tree at tmpDir/Tmp.app
  entryAsar,   \* tmpDir/entry-asar exists
  pc,          \* where makeUniversalApp is
  err,         \* the error makeUniversalApp throws
  x64AsarMode,
  x64Files,
  arm64Files,
  machoIdx,    \* position of the ReconcileMachO loop
  knownMergedMachOFiles,
  scratch,     \* mergeASARs' x64Dir and arm64Dir: "none", "exists", "removed"
  orderingFile,\* os.tmpdir()/ordering.txt
  log          \* what happened: tool invocations, console output, input reads

vars == <<opts, x64App, arm64App, out, tmpDir, tmpApp, entryAsar, pc, err, x64AsarMode,
          x64Files, arm64Files, machoIdx, knownMergedMachOFiles, scratch, orderingFile, log>>

NoError == [kind |-> "none", path |-> <<>>, where |-> "-"]
Error(kind, path, where) == [kind |-> kind, path |-> path, where |-> where]

OldOutput == Single(<<"Contents", "old">>, Txt("old"))
Out(state, tree) == [state |-> state, tree |-> tree]

NoLog == [lipo |-> {}, reads |-> {}, console |-> <<>>, listing |-> <<>>]
LipoCall(stage, p, x64, arm64) == [stage |-> stage, path |-> p, x64 |-> x64, arm64 |-> arm64]

Init ==
  \E base \in Bases : \E code \in InputCodes(base) :
    LET s == Decode(Nominal(base), code, 1) IN
    /\ opts = s.o
    /\ x64App = BundleTree(s.x)
    /\ arm64App = BundleTree(s.a)
    /\ out = IF s.o.outExists THEN Out("old", OldOutput) ELSE Out("absent", EmptyTree)
    /\ tmpDir = "none"
    /\ tmpApp = EmptyTree
    /\ entryAsar = FALSE
    /\ pc = "validate"
    /\ err = NoError
    /\ x64AsarMode = "-"
    /\ x64Files = <<>>
    /\ arm64Files = <<>>
    /\ machoIdx = 1
    /\ knownMergedMachOFiles = {}
    /\ scratch = [x64Dir |-> "none", arm64Dir |-> "none"]
    /\ orderingFile = <<>>
    /\ log = NoLog

\* throw before tmpDir exists: the error reaches the caller at once.
Throw(e) == pc' = "done" /\ err' = e
ThrowInTry_NoFinally(e) == pc' = "done" /\ err' = e
\* throw inside try: finally runs first.
ThrowInTry(e) == pc' = "cleanup" /\ err' = e

(***************************************************************************)
(* makeUniversalApp                                                        *)
(***************************************************************************)
pathExists_Never(o) == FALSE
\* fs.pathExists(opts.outAppPath)
pathExists(o) == o.state # "absent"

Validate ==
  /\ pc = "validate"
  /\ UNCHANGED <<opts, x64App, arm64App, tmpDir, tmpApp, entryAsar, x64AsarMode, x64Files,
                 arm64Files, machoIdx, knownMergedMachOFiles, scratch, orderingFile, log>>
  /\ IF ~opts.darwin THEN Throw(Error("Platform", <<>>, "-")) /\ UNCHANGED out
     ELSE IF ~opts.x64Abs THEN Throw(Error("NotAbsolute", <<>>, "x64AppPath")) /\ UNCHANGED out
     ELSE IF ~opts.arm64Abs THEN Throw(Error("NotAbsolute", <<>>, "arm64AppPath")) /\ UNCHANGED out
     ELSE IF ~opts.outAbs THEN Throw(Error("NotAbsolute", <<>>, "outAppPath")) /\ UNCHANGED out
     ELSE IF pathExists(out)
       THEN IF ~opts.force
              THEN Throw(Error("OutputExists", <<>>, "-")) /\ UNCHANGED out
              ELSE out' = Out("absent", EmptyTree) /\ pc' = "detect" /\ UNCHANGED err
       ELSE pc' = "detect" /\ UNCHANGED <<out, err>>

DetectMode ==
  /\ pc = "detect"
  /\ x64AsarMode' = detectAsarMode(x64App)
  /\ log' = [log EXCEPT !.reads = @ \cup {"detect"}]
  /\ IF detectAsarMode(x64App) # detectAsarMode(arm64App)
       THEN Throw(Error("AsarModeMismatch", <<>>, "-"))
       ELSE pc' = "stage" /\ UNCHANGED err
  /\ UNCHANGED <<opts, x64App, arm64App, out, tmpDir, tmpApp, entryAsar, x64Files, arm64Files,
                 machoIdx, knownMergedMachOFiles, scratch, orderingFile>>

\* fs.mkdtemp(os.tmpdir()/electron-universal-)
Stage ==
  /\ pc = "stage"
  /\ tmpDir' = "exists"
  /\ pc' = "copy"
  /\ UNCHANGED <<opts, x64App, arm64App, out, tmpApp, entryAsar, err, x64AsarMode, x64Files,
                 arm64Files, machoIdx, knownMergedMachOFiles, scratch, orderingFile, log>>

\* spawn('cp', ['-R', opts.x64AppPath, tmpApp])
CopyX64 ==
  /\ pc = "copy"
  /\ log' = [log EXCEPT !.reads = @ \cup {"copy"}]
  /\ \/ tmpApp' = x64App /\ pc' = "classify" /\ UNCHANGED err
     \/ ThrowInTry(Error("ToolFailed", <<>>, "cp")) /\ UNCHANGED tmpApp
  /\ UNCHANGED <<opts, x64App, arm64App, out, tmpDir, entryAsar, x64AsarMode, x64Files,
                 arm64Files, machoIdx, knownMergedMachOFiles, scratch, orderingFile>>

uniqueTo(files, others) ==
  SelectSeq(dupedFiles(files), LAMBDA f : f.relativePath \notin PathsOf(others))

\* Classify both trees and check that they have the same files.
CheckParity ==
  /\ pc = "classify"
  /\ x64Files' = getAllAppFiles(tmpApp)
  /\ arm64Files' = getAllAppFiles(arm64App)
  /\ LET uniqueToX64 == uniqueTo(getAllAppFiles(tmpApp), getAllAppFiles(arm64App))
         uniqueToArm64 == uniqueTo(getAllAppFiles(arm64App), getAllAppFiles(tmpApp))
     IN IF Len(uniqueToX64) # 0 \/ Len(uniqueToArm64) # 0
          THEN /\ log' = [log EXCEPT !.reads = @ \cup {"classify"},
                                      !.console = <<PathsOf(uniqueToX64), PathsOf(uniqueToArm64)>>]
               /\ ThrowInTry(Error("FileMismatch", <<>>, "-"))
          ELSE /\ log' = [log EXCEPT !.reads = @ \cup {"classify"}]
               /\ pc' = "plain" /\ UNCHANGED err
  /\ UNCHANGED <<opts, x64App, arm64App, out, tmpDir, tmpApp, entryAsar, x64AsarMode,
                 machoIdx, knownMergedMachOFiles, scratch, orderingFile>>

PlainMismatch_Never(f) == FALSE
PlainMismatch_NoNib(f) == sha(x64App[f.relativePath]) # sha(arm64App[f.relativePath])
\* A plain file whose hashes differ and that is not inside a MainMenu.nib directory.
PlainMismatch(f) ==
  /\ sha(x64App[f.relativePath]) # sha(arm64App[f.relativePath])
  /\ basename(dirname(f.relativePath)) # "MainMenu.nib"

ReconcilePlain ==
  /\ pc = "plain"
  /\ LET bad == SelectSeq(FilterType(x64Files, "PLAIN"), PlainMismatch)
     IN IF Len(bad) # 0
          THEN ThrowInTry(Error("ShaMismatch", bad[1].relativePath, "-"))
          ELSE pc' = "macho" /\ UNCHANGED err
  /\ UNCHANGED <<opts, x64App, arm64App, out, tmpDir, tmpApp, entryAsar, x64AsarMode, x64Files,
                 arm64Files, machoIdx, knownMergedMachOFiles, scratch, orderingFile, log>>

machOFiles == FilterType(x64Files, "MACHO")

\* One iteration of the loop over the Mach-O files of the x64 list.
\* A write of content c at <<root, path>> as seen from the tree at root r.
Written(tree, r, target, c) ==
  IF target[1] = r THEN [tree EXCEPT ![target[2]] = c] ELSE tree
lipoOutput_First(p) == <<"x64AppPath", p>>
\* lipo ... -output realpath(path.resolve(tmpApp, machOFile.relativePath))
lipoOutput(p) == <<"tmpApp", p>>

ReconcileMachO ==
  /\ pc = "macho"
  /\ machoIdx <= Len(machOFiles)
  /\ LET p == machOFiles[machoIdx].relativePath
         first == tmpApp[p]
         second == arm64App[p]
     IN IF isUniversalMachO(readMachOHeader(first)) /\ isUniversalMachO(readMachOHeader(second))
          THEN /\ knownMergedMachOFiles' = knownMergedMachOFiles \cup {p}
               /\ machoIdx' = machoIdx + 1
               /\ UNCHANGED <<pc, err, tmpApp, log, x64App, arm64App>>
          ELSE IF sha(x64App[p]) = sha(arm64App[p])
            THEN IF ~opts.x64ArchFiles.set \/ ~minimatch(p, opts.x64ArchFiles)
                   THEN /\ ThrowInTry(Error("SameMachO", p, "x64ArchFiles"))
                        /\ UNCHANGED <<knownMergedMachOFiles, machoIdx, tmpApp, log, x64App, arm64App>>
                   ELSE /\ machoIdx' = machoIdx + 1
                        /\ UNCHANGED <<pc, err, knownMergedMachOFiles, tmpApp, log, x64App, arm64App>>
            ELSE /\ log' = [log EXCEPT !.lipo = @ \cup {LipoCall("macho", p, first, second)}]
                 /\ \/ /\ LipoAccepts(first, second)
                       /\ tmpApp' = Written(tmpApp, "tmpApp", lipoOutput(p), LipoOutput(first, second))
                       /\ x64App' = Written(x64App, "x64AppPath", lipoOutput(p), LipoOutput(first, second))
                       /\ arm64App' = Written(arm64App, "arm64AppPath", lipoOutput(p), LipoOutput(first, second))
                       /\ knownMergedMachOFiles' = knownMergedMachOFiles \cup {p}
                       /\ machoIdx' = machoIdx + 1
                       /\ UNCHANGED <<pc, err>>
                    \/ /\ ThrowInTry(Error("ToolFailed", p, "lipo"))
                       /\ UNCHANGED <<knownMergedMachOFiles, machoIdx, tmpApp, x64App, arm64App>>
  /\ UNCHANGED <<opts, out, tmpDir, entryAsar, x64AsarMode, x64Files,
                 arm64Files, scratch, orderingFile>>

MachODone ==
  /\ pc = "macho"
  /\ machoIdx > Len(machOFiles)
  /\ pc' = "merge"
  /\ UNCHANGED <<opts, x64App, arm64App, out, tmpDir, tmpApp, entryAsar, err, x64AsarMode,
                 x64Files, arm64Files, machoIdx, knownMergedMachOFiles, scratch, orderingFile, log>>

(***************************************************************************)
(* Shim Generator                                                          *)
(***************************************************************************)
IndexJs == <<"index.js">>
WithMain_Keep(pj) == pj
\* pj.main = 'index.js'
WithMain(pj) == [pj EXCEPT !.meta = {<<"main", "index.js">>}]
\* asar.createPackage(entryAsar, ...): index.js is the shim, package.json is pj.
ShimArchive(shim, pj) ==
  Asar({EntryRec(IndexJs, FALSE, FALSE, Txt(shim)), EntryRec(PkgJson, FALSE, FALSE, WithMain(pj))})

(***************************************************************************)
(* Tree Diff Analyzer and MergeLoose                                       *)
(***************************************************************************)
EntriesUnder(tree, root) == {Rebase(p, root, <<>>) : p \in Under(tree, root)}

differences_All(left, right) ==
  EntriesUnder(left, LooseRoot) \cup EntriesUnder(right, LooseRoot)
\* dircompare.compare(left, right, {compareSize, compareContent}).diffSet,
\* the entries whose state is not 'equal'.
differences(left, right) ==
  {e \in EntriesUnder(left, LooseRoot) \cup EntriesUnder(right, LooseRoot) :
     \/ e \notin EntriesUnder(left, LooseRoot)
     \/ e \notin EntriesUnder(right, LooseRoot)
     \/ ~SameContent(left[LooseRoot \o e], right[LooseRoot \o e])}

nonMergedDifferences_NoKnown(left, right, known) == differences(left, right)
nonMergedDifferences(left, right, known) ==
  {e \in differences(left, right) :
     e \notin EntriesUnder(left, LooseRoot) \/ LooseRoot \o e \notin known}

MergeLoose ==
  /\ pc = "merge"
  /\ x64AsarMode = "NO_ASAR"
  /\ IF Under(tmpApp, LooseRoot) = {} \/ Under(arm64App, LooseRoot) = {}
       THEN /\ ThrowInTry(Error("ENOENT", LooseRoot, "dircompare"))
            /\ UNCHANGED <<tmpApp, entryAsar>>
       ELSE IF nonMergedDifferences(tmpApp, arm64App, knownMergedMachOFiles) # {}
         THEN /\ entryAsar' = TRUE
              /\ IF LooseRoot \o PkgJson \in DOMAIN x64App
                   THEN /\ tmpApp' =
                             Overlay(Overlay(Overlay(Without(tmpApp, LooseRoot),
                                                     Moved(tmpApp, LooseRoot, X64LooseRoot)),
                                             Moved(arm64App, LooseRoot, Arm64LooseRoot)),
                                     Single(AsarPath, ShimArchive("no-asar.js", x64App[LooseRoot \o PkgJson])))
                        /\ pc' = "integrity" /\ UNCHANGED err
                   ELSE /\ tmpApp' =
                             Overlay(Overlay(Without(tmpApp, LooseRoot),
                                             Moved(tmpApp, LooseRoot, X64LooseRoot)),
                                     Moved(arm64App, LooseRoot, Arm64LooseRoot))
                        /\ ThrowInTry(Error("ENOENT", LooseRoot \o PkgJson, "readJson"))
         ELSE pc' = "integrity" /\ UNCHANGED <<err, tmpApp, entryAsar>>
  /\ UNCHANGED <<opts, x64App, arm64App, out, tmpDir, x64AsarMode, x64Files, arm64Files,
                 machoIdx, knownMergedMachOFiles, scratch, orderingFile, log>>

(***************************************************************************)
(* MergeArchive without mergeASARs: keep one archive or build the shim     *)
(***************************************************************************)
MergeArchiveShim ==
  /\ pc = "merge"
  /\ x64AsarMode = "HAS_ASAR"
  /\ ~opts.mergeASARs
  /\ IF sha(tmpApp[AsarPath]) # sha(arm64App[AsarPath])
       THEN /\ entryAsar' = TRUE
            /\ LET relocated ==
                     Overlay(Overlay(Overlay(Overlay(
                         Without(Without(tmpApp, AsarPath), UnpackedRoot),
                         Single(X64AsarPath, tmpApp[AsarPath])),
                         Moved(tmpApp, UnpackedRoot, X64UnpackedRoot)),
                         Single(Arm64AsarPath, arm64App[AsarPath])),
                         Moved(arm64App, UnpackedRoot, Arm64UnpackedRoot))
               IN IF PkgJson \in listPackage(x64App[AsarPath])
                    THEN /\ tmpApp' = Overlay(relocated,
                                Single(AsarPath, ShimArchive("has-asar.js", extractFile(x64App, AsarPath, PkgJson))))
                         /\ pc' = "integrity" /\ UNCHANGED err
                    ELSE /\ tmpApp' = relocated
                         /\ ThrowInTry(Error("ENOENT", PkgJson, "extractFile"))
       ELSE pc' = "integrity" /\ UNCHANGED <<err, tmpApp, entryAsar>>
  /\ UNCHANGED <<opts, x64App, arm64App, out, tmpDir, x64AsarMode, x64Files, arm64Files,
                 machoIdx, knownMergedMachOFiles, scratch, orderingFile, log>>

(***************************************************************************)
(* Archive Merger: mergeASARs                                              *)
(***************************************************************************)
checkSingleArchThrows_Never(e, allowList) == FALSE
\* checkSingleArch(archive, file, allowList) throws.
checkSingleArchThrows(e, allowList) == ~allowList.set \/ ~minimatch(e, allowList)

\* The entries of list that the other archive lacks, in listing order.
uniqueEntries(archive, other) ==
  SelectSeq(listPackageSeq(archive), LAMBDA e : e \notin listPackage(other))

Put_Last(ordering, file, unpack) == Append(ordering, <<file, unpack>>)
\* ordering[file] = { unpack }: a key already there keeps its place, a new
\* key comes last.
Put(ordering, file, unpack) ==
  IF \E i \in 1..Len(ordering) : ordering[i][1] = file
    THEN [i \in 1..Len(ordering) |->
            IF ordering[i][1] = file THEN <<file, unpack>> ELSE ordering[i]]
    ELSE Append(ordering, <<file, unpack>>)
\* buildUnpacked(asarPath, fileList): every file of the list, in its order.
RECURSIVE buildUnpacked(_, _, _)
buildUnpacked(ordering, archive, fileList) ==
  IF fileList = <<>> THEN ordering
  ELSE buildUnpacked(IF statFile(archive, Head(fileList)).dir THEN ordering
                     ELSE Put(ordering, Head(fileList), statFile(archive, Head(fileList)).unpacked),
                     archive, Tail(fileList))
\* generateOrderingConfig: the lines file:{unpack} of ordering.txt, the x64
\* list first, then the arm64 list.
generateOrderingConfig(x64Archive, arm64Archive) ==
  buildUnpacked(buildUnpacked(<<>>, x64Archive, listPackageSeq(x64Archive)),
                arm64Archive, listPackageSeq(arm64Archive))

\* The common files with different content, in listing order.
differingCommon(x64Tree, arm64Tree) ==
  SelectSeq(listPackageSeq(x64Tree[AsarPath]),
            LAMBDA e : /\ e \in listPackage(arm64Tree[AsarPath])
                       /\ ~isDirectory(x64Tree[AsarPath], e)
                       /\ ~SameContent(extractFile(x64Tree, AsarPath, e), extractFile(arm64Tree, AsarPath, e))
                       /\ ~(/\ extractFile(x64Tree, AsarPath, e).magic \in MACHO_UNIVERSAL_MAGIC
                            /\ extractFile(arm64Tree, AsarPath, e).magic \in MACHO_UNIVERSAL_MAGIC))
\* Those that are not Mach-O on the x64 side cannot be reconciled.
unreconcilable(x64Tree, arm64Tree) ==
  SelectSeq(differingCommon(x64Tree, arm64Tree),
            LAMBDA e : extractFile(x64Tree, AsarPath, e).magic \notin MACHO_MAGIC)
commonBindings(x64Tree, arm64Tree) == differingCommon(x64Tree, arm64Tree)

\* mergeASARs up to the try block: scratch directories, unique files,
\* ordering file, common bindings.
MergeASARsCheck ==
  /\ pc = "merge"
  /\ x64AsarMode = "HAS_ASAR"
  /\ opts.mergeASARs
  /\ scratch' = [x64Dir |-> "exists", arm64Dir |-> "exists"]
  /\ LET x64Unique == SelectSeq(uniqueEntries(tmpApp[AsarPath], arm64App[AsarPath]),
                                LAMBDA e : checkSingleArchThrows(e, opts.singleArchFiles))
         arm64Unique == SelectSeq(uniqueEntries(arm64App[AsarPath], tmpApp[AsarPath]),
                                  LAMBDA e : checkSingleArchThrows(e, opts.singleArchFiles))
     IN IF Len(x64Unique) # 0
          THEN ThrowInTry(Error("UniqueFile", x64Unique[1], "x64")) /\ UNCHANGED orderingFile
        ELSE IF Len(arm64Unique) # 0
          THEN ThrowInTry(Error("UniqueFile", arm64Unique[1], "arm64")) /\ UNCHANGED orderingFile
        ELSE /\ orderingFile' = generateOrderingConfig(tmpApp[AsarPath], arm64App[AsarPath])
             /\ IF Len(unreconcilable(tmpApp, arm64App)) # 0
                  THEN ThrowInTry(Error("CantReconcile", unreconcilable(tmpApp, arm64App)[1], "-"))
                  ELSE pc' = "repack" /\ UNCHANGED err
  /\ UNCHANGED <<opts, x64App, arm64App, out, tmpDir, tmpApp, entryAsar, x64AsarMode, x64Files,
                 arm64Files, machoIdx, knownMergedMachOFiles, log>>

\* asar.createPackageWithOptions(dir, output, {ordering}): every entry of dir,
\* unpacked as the ordering says; unpacked files are written to output.unpacked.
Unpack(ordering, e) == \E i \in 1..Len(ordering) : ordering[i] = <<e, TRUE>>
PackedArchive(dir, ordering) ==
  Listed(Asar({EntryRec(e, dir[e].magic = "dir", dir[e].magic # "dir" /\ Unpack(ordering, e), dir[e])
                 : e \in DOMAIN dir}),
         headerOrder([i \in 1..Len(ordering) |-> ordering[i][1]]))
PackedUnpacked(dir, ordering) ==
  [p \in {UnpackedRoot \o e : e \in {f \in DOMAIN dir : dir[f].magic # "dir" /\ Unpack(ordering, f)}}
     |-> dir[Rebase(p, UnpackedRoot, <<>>)]]

LipoCalls(stage, bindings, n, x64Dir, arm64Dir) ==
  {LipoCall(stage, bindings[i], x64Dir[bindings[i]], arm64Dir[bindings[i]]) : i \in 1..n}

\* mergeASARs' try block and its finally: extract, copy the arm64-only
\* entries, fuse the common bindings, re-pack, remove the scratch directories.
MergeASARsBuild ==
  /\ pc = "repack"
  /\ scratch' = [x64Dir |-> "removed", arm64Dir |-> "removed"]
  /\ LET x64Dir == extractAll(tmpApp, AsarPath)
         arm64Dir == extractAll(arm64App, AsarPath)
         arm64Unique == {e \in DOMAIN arm64Dir : e \notin DOMAIN x64Dir}
         withUnique == Overlay(x64Dir, Restrict(arm64Dir, arm64Unique))
         bindings == commonBindings(tmpApp, arm64App)
         fused == [e \in DOMAIN withUnique |->
                     IF e \in {bindings[i] : i \in 1..Len(bindings)}
                       THEN LipoOutput(arm64Dir[e], x64Dir[e]) ELSE withUnique[e]]
     IN \/ /\ \A i \in 1..Len(bindings) : LipoAccepts(arm64Dir[bindings[i]], x64Dir[bindings[i]])
           /\ log' = [log EXCEPT !.lipo = @ \cup LipoCalls("asar", bindings, Len(bindings), x64Dir, arm64Dir)]
           /\ tmpApp' = Overlay(Overlay(tmpApp, Single(AsarPath, PackedArchive(fused, orderingFile))),
                                PackedUnpacked(fused, orderingFile))
           /\ pc' = "integrity" /\ UNCHANGED err
        \/ \E k \in 1..Len(bindings) :
             /\ \A i \in 1..(k - 1) : LipoAccepts(arm64Dir[bindings[i]], x64Dir[bindings[i]])
             /\ log' = [log EXCEPT !.lipo = @ \cup LipoCalls("asar", bindings, k, x64Dir, arm64Dir)]
             /\ ThrowInTry(Error("ToolFailed", bindings[k], "lipo"))
             /\ UNCHANGED tmpApp
  /\ UNCHANGED <<opts, x64App, arm64App, out, tmpDir, entryAsar, x64AsarMode, x64Files,
                 arm64Files, machoIdx, knownMergedMachOFiles, orderingFile>>

(***************************************************************************)
(* Integrity Computer                                                      *)
(***************************************************************************)
\* Every order in which the members of S can come.
RECURSIVE Orders(_)
Orders(S) == IF S = {} THEN {<<>>} ELSE UNION {{<<x>> \o s : s \in Orders(S \ {x})} : x \in S}
Range(s) == {s[i] : i \in 1..Len(s)}

\* The APP_CODE files getAllAppFiles(Contents/Resources) finds; the order in
\* which readdir lists them is the file system's.
resourceAsars(tree) ==
  PathsOf(FilterType(getAllAppFiles(Restrict(tree, Under(tree, Resources))), "APP_CODE"))

\* name1.localeCompare(name2) on the names of the archives of Resources.
\* The names in ascending order: '-' sorts before '.', '.' before '/'.
CollationOrder ==
  << <<"app-arm64.asar">>, <<"app-arm64", "web.asar">>, <<"app-x64.asar">>,
     <<"app-x64", "web.asar">>, <<"app.asar">>, <<"app", "web.asar">>, <<"webapp.asar">> >>
BelowResources(name) ==
  LET k == CHOOSE i \in 1..Len(name) : name[i] = "Resources" IN SubSeq(name, k + 1, Len(name))
Rank(name) == CHOOSE i \in 1..Len(CollationOrder) : CollationOrder[i] = BelowResources(name)
localeCompare(name1, name2) == Rank(name1) - Rank(name2)

sort_Keep(entries) == entries
\* entries.sort(([name1], [name2]) => name1.localeCompare(name2))
sort(entries) ==
  CHOOSE s \in Orders(Range(entries)) :
    \A i, j \in 1..Len(entries) : i < j => localeCompare(s[i][1], s[j][1]) < 0

\* Promise.all: the results in the order of the tasks, whatever order they
\* complete in.
PromiseAll(tasks, completion) == [i \in 1..Len(tasks) |-> tasks[i]]

\* computeIntegrityData(tmpApp/Contents): one entry per APP_CODE file under
\* Contents/Resources, keyed by its path relative to Contents, in the order of
\* insertion. listing is the order in which the files were found, completion
\* the order in which the hashes are ready.
computeIntegrityData(tree, listing, completion) ==
  LET resourceEntries == [i \in 1..Len(listing) |->
                            <<SubSeq(listing[i], 2, Len(listing[i])), listing[i]>>]
      allAsars == sort(resourceEntries)
      hashes == PromiseAll([i \in 1..Len(allAsars) |-> sha(tree[allAsars[i][2]])], completion)
  IN [i \in 1..Len(allAsars) |-> <<allAsars[i][1], hashes[i]>>]

\* The plist without its ElectronAsarIntegrity key.
StripIntegrity(pl) == [pl EXCEPT !.meta = NoIntegrity]
WithIntegrity(pl, integrity) == [pl EXCEPT !.meta = Integrity(integrity)]

plistFiles == FilterType(x64Files, "INFO_PLIST")

\* plist.parse without ElectronAsarIntegrity: the other keys and their values,
\* in the order of the document.
parse(pl) ==
  CASE pl.body = "K1" -> << <<"CFBundleName", "App">>, <<"CFBundleVersion", "1">> >>
    [] pl.body = "K1r" -> << <<"CFBundleVersion", "1">>, <<"CFBundleName", "App">> >>
    [] pl.body = "K2" -> << <<"CFBundleName", "App">>, <<"CFBundleVersion", "2">> >>

JSONstringify_Sorted(obj) == {obj[i] : i \in 1..Len(obj)}
\* JSON.stringify(object): the keys and values in insertion order.
RECURSIVE JSONstringify(_)
JSONstringify(obj) ==
  IF obj = <<>> THEN <<>> ELSE <<obj[1][1], ":", obj[1][2]>> \o JSONstringify(Tail(obj))

PlistDiffers(f) ==
  JSONstringify(parse(x64App[f.relativePath])) # JSONstringify(parse(arm64App[f.relativePath]))

injectAsarIntegrity(p) == ~opts.infoPlistsToIgnore.set \/ minimatch(p, opts.infoPlistsToIgnore)

mergedPlist(p, generatedIntegrity) ==
  IF injectAsarIntegrity(p)
    THEN WithIntegrity(StripIntegrity(x64App[p]), generatedIntegrity)
    ELSE StripIntegrity(x64App[p])

\* computeIntegrityData, then the loop over the Info.plist files of the x64 list.
InjectIntegrity ==
  /\ pc = "integrity"
  /\ \E listing \in Orders(resourceAsars(tmpApp)) :
     \E completion \in Orders(1..Len(listing)) :
     LET generatedIntegrity == computeIntegrityData(tmpApp, listing, completion)
         bad == SelectSeq(plistFiles, PlistDiffers)
         upTo == IF Len(bad) = 0 THEN PathsOf(plistFiles)
                 ELSE {plistFiles[i].relativePath :
                         i \in {j \in 1..Len(plistFiles) :
                                  \A k \in 1..j : ~PlistDiffers(plistFiles[k])}}
     IN /\ tmpApp' = Overlay(tmpApp, [p \in upTo |-> mergedPlist(p, generatedIntegrity)])
        /\ log' = [log EXCEPT !.listing = listing]
        /\ IF Len(bad) # 0
             THEN ThrowInTry(Error("PlistMismatch", bad[1].relativePath, "-"))
             ELSE pc' = "snapshots" /\ UNCHANGED err
  /\ UNCHANGED <<opts, x64App, arm64App, out, tmpDir, entryAsar, x64AsarMode, x64Files,
                 arm64Files, machoIdx, knownMergedMachOFiles, scratch, orderingFile>>

snapshotFiles_WithArchives(files) == SelectSeq(files, LAMBDA f : f.type \in {"SNAPSHOT", "APP_CODE"})
\* arm64Files.filter((f) => f.type === AppFileType.SNAPSHOT)
snapshotFiles(files) == FilterType(files, "SNAPSHOT")

\* Copy every SNAPSHOT file of the arm64 list over the scratch copy:
\* fs.copy(arm64AppPath/relativePath, tmpApp/relativePath).
CopySnapshots ==
  /\ pc = "snapshots"
  /\ tmpApp' = Overlay(tmpApp, Restrict(arm64App, PathsOf(snapshotFiles(arm64Files))))
  /\ pc' = "promote"
  /\ UNCHANGED <<opts, x64App, arm64App, out, tmpDir, entryAsar, err, x64AsarMode, x64Files,
                 arm64Files, machoIdx, knownMergedMachOFiles, scratch, orderingFile, log>>

\* What a cross-device mv that fails midway leaves at the destination.
PartialCopy(tree) ==
  LET at(p) == CHOOSE i \in 1..Len(TraversalOrder) : TraversalOrder[i] = p
  IN Restrict(tree, {p \in DOMAIN tree : \A q \in DOMAIN tree : at(p) <= at(q)})

\* fs.mkdirp(dirname(outAppPath)); spawn('mv', [tmpApp, opts.outAppPath]):
\* mv renames, or fails with nothing moved, or (destination on another file
\* system) fails after copying a part.
Promote ==
  /\ pc = "promote"
  /\ \/ /\ out' = Out("new", tmpApp)
        /\ tmpApp' = EmptyTree
        /\ pc' = "cleanup"
        /\ UNCHANGED err
     \/ /\ ThrowInTry(Error("ToolFailed", <<>>, "mv"))
        /\ UNCHANGED <<out, tmpApp>>
     \/ /\ ThrowInTry(Error("ToolFailed", <<>>, "mv"))
        /\ out' = Out("partial", PartialCopy(tmpApp))
        /\ UNCHANGED tmpApp
  /\ UNCHANGED <<opts, x64App, arm64App, tmpDir, entryAsar, x64AsarMode, x64Files, arm64Files,
                 machoIdx, knownMergedMachOFiles, scratch, orderingFile, log>>

\* finally { await fs.remove(tmpDir) }
Cleanup ==
  /\ pc = "cleanup"
  /\ tmpDir' = "removed"
  /\ tmpApp' = EmptyTree
  /\ entryAsar' = FALSE
  /\ pc' = "done"
  /\ UNCHANGED <<opts, x64App, arm64App, out, err, x64AsarMode, x64Files, arm64Files,
                 machoIdx, knownMergedMachOFiles, scratch, orderingFile, log>>

Next ==
  \/ Validate
  \/ DetectMode
  \/ Stage
  \/ CopyX64
  \/ CheckParity
  \/ ReconcilePlain
  \/ ReconcileMachO
  \/ MachODone
  \/ MergeLoose
  \/ MergeArchiveShim
  \/ MergeASARsCheck
  \/ MergeASARsBuild
  \/ InjectIntegrity
  \/ CopySnapshots
  \/ Promote
  \/ Cleanup

Spec == Init /\ [][Next]_vars

(***************************************************************************)
(* Properties                                                              *)
(***************************************************************************)
Running == {"copy", "classify", "plain", "macho", "merge", "repack", "integrity", "snapshots", "promote"}
PastParity == {"plain", "macho", "merge", "repack", "integrity", "snapshots", "promote"}
PastPlain == {"macho", "merge", "repack", "integrity", "snapshots", "promote"}
PastMerge == {"integrity", "snapshots", "promote"}

\* C1: outAppPath never holds a partially built bundle: before Promote nothing
\* is written at outAppPath, and an invocation that ends with an error (a
\* failing tool, a failing Promote) leaves no bundle of its own there.
C1_NoPartialOutput ==
  /\ pc \in {"validate", "detect", "stage"} \cup Running => out.state \in {"absent", "old"}
  /\ err # NoError => out.state \in {"absent", "old"}

\* C2: while the scratch working directory exists the invocation is inside
\* the try block or its finally, and every way it ends, success or error, has
\* removed the directory before the caller sees the result.
C2_ScratchRemoved ==
  /\ tmpDir = "exists" => pc \in Running \cup {"cleanup"}
  /\ pc = "done" /\ tmpDir # "none" => tmpDir = "removed" /\ tmpApp = EmptyTree
C2_Witness == pc = "done" /\ tmpDir = "removed" /\ err.kind = "ToolFailed" /\ err.where = "lipo"

\* C3: when outAppPath exists (and platform and paths are valid): without
\* force the call fails with the 'already exists' error before either input
\* is read, copied or classified, and the output stays as it was; with force
\* the output is deleted first, and a successful merge leaves only the new
\* bundle at outAppPath.
C3_ExistingOutput ==
  /\ opts.outExists /\ ~opts.force /\ ~Invalid(opts) =>
       /\ out = Out("old", OldOutput)
       /\ log.reads = {}
       /\ tmpDir = "none"
       /\ pc \in {"validate", "done"}
       /\ pc = "done" => err = Error("OutputExists", <<>>, "-")
  /\ opts.outExists /\ opts.force /\ ~Invalid(opts) =>
       /\ pc # "validate" => out.state # "old"
       /\ out.state = "new" => err = NoError /\ DOMAIN out.tree \cap DOMAIN OldOutput = {}
C3_Witness == opts.outExists /\ ~opts.force /\ pc = "done" /\ err.kind = "OutputExists"

\* C4: archive presence is determined for each input from that input alone;
\* when exactly one input has Contents/Resources/app.asar the call fails with
\* the 'same asar settings' error, no scratch directory is created and no
\* output is produced.
AsarMismatch == (AsarPath \in DOMAIN x64App) # (AsarPath \in DOMAIN arm64App)
C4_ModeMismatch ==
  /\ x64AsarMode # "-" =>
       x64AsarMode = IF AsarPath \in DOMAIN x64App THEN "HAS_ASAR" ELSE "NO_ASAR"
  /\ AsarMismatch =>
       /\ tmpDir = "none"
       /\ out.state \in {"absent", "old"}
       /\ pc \in {"validate", "detect", "done"}
       /\ pc = "done" /\ "detect" \in log.reads => err = Error("AsarModeMismatch", <<>>, "-")
C4_Witness == AsarMismatch /\ pc = "done" /\ err.kind = "AsarModeMismatch"

\* The files of tree whose type is in types and that other lacks.
OneSided(tree, other, types) ==
  {p \in DOMAIN tree :
     /\ tree[p].magic # "dir"
     /\ fileType(p, tree[p]) \in types
     /\ (p \notin DOMAIN other \/ other[p].magic = "dir")}

\* C5 as stated: every path typed PlainFile, MachOBinary, InfoPlist or
\* Snapshot on one side is present on the other once CheckParity has passed.
C5_SnapshotParity ==
  pc \in PastParity =>
    /\ OneSided(x64App, arm64App, {"PLAIN", "MACHO", "INFO_PLIST", "SNAPSHOT"}) = {}
    /\ OneSided(arm64App, x64App, {"PLAIN", "MACHO", "INFO_PLIST", "SNAPSHOT"}) = {}

\* C5: every path that either side types PlainFile, MachOBinary or InfoPlist
\* is present on the other side once CheckParity has passed (Snapshot and
\* ArchiveCode paths are exempt); a one-sided path fails the merge before any
\* fusion or merge step, and the failure prints both one-sided lists.
C5_Parity ==
  /\ pc \in PastParity \/ out.state = "new" =>
       /\ OneSided(x64App, arm64App, {"PLAIN", "MACHO", "INFO_PLIST"}) = {}
       /\ OneSided(arm64App, x64App, {"PLAIN", "MACHO", "INFO_PLIST"}) = {}
  /\ err.kind = "FileMismatch" =>
       /\ log.lipo = {} /\ scratch.x64Dir = "none" /\ ~entryAsar /\ out.state \in {"absent", "old"}
       /\ log.console = <<OneSided(x64App, arm64App, {"PLAIN", "MACHO", "INFO_PLIST"}),
                          OneSided(arm64App, x64App, {"PLAIN", "MACHO", "INFO_PLIST"})>>
       /\ log.console # <<{}, {}>>
C5_Witness ==
  /\ err.kind = "FileMismatch" /\ pc = "done"
  /\ log.console[1] # {} /\ log.console[2] # {}

PlainPaths ==
  {p \in DOMAIN x64App : x64App[p].magic # "dir" /\ fileType(p, x64App[p]) = "PLAIN"}
InMainMenuNib(p) == Len(p) >= 2 /\ p[Len(p) - 1] = "MainMenu.nib"

\* C6: once ReconcilePlain has passed, every PlainFile has the same content on
\* both sides unless its immediate parent directory is MainMenu.nib; any other
\* mismatch aborts with an error naming that file, so a successful merge has
\* identical PlainFiles outside MainMenu.nib directories.
C6_ReconcilePlain ==
  /\ pc \in PastPlain \/ out.state = "new" =>
       \A p \in PlainPaths : SameContent(x64App[p], arm64App[p]) \/ InMainMenuNib(p)
  /\ err.kind = "ShaMismatch" =>
       /\ err.path \in PlainPaths
       /\ ~SameContent(x64App[err.path], arm64App[err.path])
       /\ ~InMainMenuNib(err.path)
       /\ log.lipo = {} /\ out.state \in {"absent", "old"}
C6_Witness ==
  /\ pc = "done" /\ out.state = "new"
  /\ NibPath \in PlainPaths /\ ~SameContent(x64App[NibPath], arm64App[NibPath])

MachOStep == pc = "macho" /\ machoIdx <= Len(machOFiles)
CurrentMachO == machOFiles[machoIdx].relativePath
BothFat(p) == tmpApp[p].magic = "fat" /\ arm64App[p].magic = "fat"

C8_SameContentMachO ==
  [][MachOStep /\ ~BothFat(CurrentMachO)
       /\ SameContent(x64App[CurrentMachO], arm64App[CurrentMachO]) =>
       /\ log'.lipo = log.lipo
       /\ tmpApp' = tmpApp
       /\ knownMergedMachOFiles' = knownMergedMachOFiles
       /\ IF opts.x64ArchFiles.set /\ CurrentMachO \in opts.x64ArchFiles.matches
            THEN err' = NoError /\ pc' = "macho" /\ machoIdx' = machoIdx + 1
            ELSE err' = Error("SameMachO", CurrentMachO, "x64ArchFiles") /\ pc' = "cleanup"]_vars
C8_Witness ==
  /\ pc = "merge" /\ err = NoError /\ opts.x64ArchFiles.set
  /\ ExePath \in opts.x64ArchFiles.matches
  /\ SameContent(x64App[ExePath], arm64App[ExePath]) /\ x64App[ExePath].magic = "thin"
  /\ ExePath \notin knownMergedMachOFiles /\ log.lipo = {}

\* C9 as stated: the Mach-O Merger gives a pair to the fusion tool only when
\* the x64 file is a thin Mach-O.
C9_LipoOnlyThin ==
  \A c \in log.lipo : c.stage = "macho" => c.x64.magic \in MACHO_MAGIC

\* C9: the Mach-O Merger gives every MachOBinary path that is not universal on
\* both sides and whose two files differ to the fusion tool, whatever the x64
\* file starts with; the step ends with the fused file recorded or with the
\* tool's failure, never with an unreconcilable-binary error.
C9_LipoWheneverDifferent ==
  [][MachOStep /\ ~BothFat(CurrentMachO)
       /\ ~SameContent(x64App[CurrentMachO], arm64App[CurrentMachO]) =>
       /\ log'.lipo = log.lipo \cup
            {LipoCall("macho", CurrentMachO, tmpApp[CurrentMachO], arm64App[CurrentMachO])}
       /\ \/ /\ err' = NoError /\ pc' = "macho"
             /\ tmpApp'[CurrentMachO].magic = "fat"
             /\ knownMergedMachOFiles' = knownMergedMachOFiles \cup {CurrentMachO}
          \/ /\ err' = Error("ToolFailed", CurrentMachO, "lipo") /\ pc' = "cleanup"
             /\ tmpApp' = tmpApp]_vars
C9_Witness ==
  \E c \in log.lipo :
    c.stage = "macho" /\ c.x64.magic = "fat" /\ c.arm64.magic = "thin" /\ c.path \in knownMergedMachOFiles

MergeOn == opts.mergeASARs /\ AsarPath \in DOMAIN x64App /\ AsarPath \in DOMAIN arm64App
X64Only == listPackage(x64App[AsarPath]) \ listPackage(arm64App[AsarPath])
Arm64Only == listPackage(arm64App[AsarPath]) \ listPackage(x64App[AsarPath])
Unmatched(S) == {e \in S : ~opts.singleArchFiles.set \/ e \notin opts.singleArchFiles.matches}
NoCommonDiff ==
  \A e \in listPackage(x64App[AsarPath]) \cap listPackage(arm64App[AsarPath]) :
    SameContent(statFile(x64App[AsarPath], e).data, statFile(arm64App[AsarPath], e).data)
Holds(tree, side, e) ==
  /\ e \in listPackage(tree[AsarPath])
  /\ statFile(tree[AsarPath], e).dir = statFile(side[AsarPath], e).dir
  /\ SameContent(statFile(tree[AsarPath], e).data, statFile(side[AsarPath], e).data)

\* C10: with mergeASARs, an entry present in one archive only and not matched
\* by singleArchFiles (or singleArchFiles unset) fails the merge with an error
\* naming that path and its archive; when every such entry is matched no such
\* error is raised, the merge of archives that agree on their common entries
\* succeeds, and the merged archive contains every x64-only and every
\* arm64-only entry.
C10_UniqueEntries ==
  MergeOn =>
    /\ err.kind = "UniqueFile" =>
         /\ err.where \in {"x64", "arm64"}
         /\ err.path \in Unmatched(IF err.where = "x64" THEN X64Only ELSE Arm64Only)
    /\ Unmatched(X64Only \cup Arm64Only) # {} =>
         /\ pc \notin {"repack"} \cup PastMerge
         /\ out.state \in {"absent", "old"}
         /\ scratch.x64Dir # "none" => err.kind = "UniqueFile"
    /\ Unmatched(X64Only \cup Arm64Only) = {} =>
         /\ err.kind # "UniqueFile"
         /\ NoCommonDiff /\ scratch.x64Dir # "none" =>
              err.kind \notin {"CantReconcile"} /\ err.where # "lipo"
    /\ pc \in PastMerge =>
         /\ \A e \in X64Only : Holds(tmpApp, x64App, e)
         /\ \A e \in Arm64Only : Holds(tmpApp, arm64App, e)
    /\ out.state = "new" =>
         /\ \A e \in X64Only : Holds(out.tree, x64App, e)
         /\ \A e \in Arm64Only : Holds(out.tree, arm64App, e)
C10_Witness ==
  /\ MergeOn /\ pc = "done" /\ out.state = "new"
  /\ Arm64Only # {} /\ Unmatched(Arm64Only) = {}
  /\ Holds(out.tree, arm64App, ExtraTxt)

ArchiveNoMerge ==
  AsarPath \in DOMAIN x64App /\ AsarPath \in DOMAIN arm64App /\ ~opts.mergeASARs
SuffixedRoots == {X64AsarPath, Arm64AsarPath, X64UnpackedRoot, Arm64UnpackedRoot,
                  X64LooseRoot, Arm64LooseRoot}
NoSuffixed(tree) == \A r \in SuffixedRoots : Under(tree, r) = {}
\* The application archives of a tree: app.asar and its arch-suffixed siblings.
ArchivesOf(tree) == {p \in DOMAIN tree : p \in {AsarPath, X64AsarPath, Arm64AsarPath}}
IsShim(archive, shim, pj) ==
  /\ listPackage(archive) = {IndexJs, PkgJson}
  /\ statFile(archive, IndexJs).data = Txt(shim)
  /\ statFile(archive, PkgJson).data.body = pj.body
  /\ statFile(archive, PkgJson).data.meta = {<<"main", "index.js">>}

Identical == x64App = arm64App
\* The Mach-O files of the x64 bundle that are thin and that x64ArchFiles does not cover.
UncoveredThin ==
  {p \in DOMAIN x64App :
     /\ x64App[p].magic = "thin"
     /\ ~endsWithAsar(p)
     /\ ~(opts.x64ArchFiles.set /\ p \in opts.x64ArchFiles.matches)}
HasAppCode == AsarPath \in DOMAIN x64App \/ Under(x64App, LooseRoot) # {}
\* tree is bundle with nothing added, removed or changed but the integrity key of Info.plist.
SameStructure(tree, bundle) ==
  /\ DOMAIN tree = DOMAIN bundle
  /\ \A p \in DOMAIN bundle :
       IF bundle[p].magic = "plist" THEN tree[p].magic = "plist" /\ tree[p].body = bundle[p].body
       ELSE tree[p] = bundle[p]

\* C12 as stated: two identical bundles, no x64ArchFiles given: the merge
\* succeeds (unless cp or mv fails).
C12_SelfMergeSucceeds ==
  Identical /\ ~opts.x64ArchFiles.set /\ HasAppCode /\ tmpDir # "none" /\ pc = "done" =>
    err.kind \in {"none", "ToolFailed"}

\* C12: two identical bundles: a thin Mach-O file that x64ArchFiles does not
\* cover fails the merge with the x64ArchFiles error; when every Mach-O file
\* is universal or covered (and the bundle has an app.asar or an app folder)
\* the merge fails only if cp or mv fails, the fusion tool is never invoked,
\* and the output is the x64 bundle: one copy of each file, one archive or app
\* folder, no arch-suffixed sibling, no shim.
C12_SelfMerge ==
  Identical /\ tmpDir # "none" /\ pc = "done" =>
    /\ log.lipo = {}
    /\ IF UncoveredThin # {}
         THEN (err.kind = "SameMachO" /\ err.path \in UncoveredThin) \/ err.where = "cp"
         ELSE /\ HasAppCode => err = NoError \/ (err.kind = "ToolFailed" /\ err.where \in {"cp", "mv"})
              /\ out.state = "new" =>
                   /\ SameStructure(out.tree, x64App)
                   /\ NoSuffixed(out.tree)
                   /\ ~entryAsar
C12_Witness ==
  /\ Identical /\ pc = "done" /\ out.state = "new"
  /\ x64App[ExePath].magic = "thin"
  /\ Under(x64App, LooseRoot) # {}

LooseMode == AsarPath \notin DOMAIN x64App /\ AsarPath \notin DOMAIN arm64App
\* The entries of the two app folders that differ and that the FusionRecord does not cover.
Remaining ==
  {e \in EntriesUnder(x64App, LooseRoot) \cup EntriesUnder(arm64App, LooseRoot) :
     /\ LooseRoot \o e \notin knownMergedMachOFiles
     /\ \/ e \notin EntriesUnder(x64App, LooseRoot)
        \/ e \notin EntriesUnder(arm64App, LooseRoot)
        \/ ~SameContent(x64App[LooseRoot \o e], arm64App[LooseRoot \o e])}
ShimmedLoose(tree) ==
  /\ AsarPath \in DOMAIN tree
  /\ IsShim(tree[AsarPath], "no-asar.js", x64App[LooseRoot \o PkgJson])
  /\ EntriesUnder(tree, X64LooseRoot) = EntriesUnder(x64App, LooseRoot)
  /\ Restrict(tree, Under(tree, Arm64LooseRoot)) = Moved(arm64App, LooseRoot, Arm64LooseRoot)
UnshimmedLoose(tree) ==
  /\ ArchivesOf(tree) = {}
  /\ NoSuffixed(tree)
  /\ EntriesUnder(tree, LooseRoot) = EntriesUnder(x64App, LooseRoot)
  /\ \A p \in knownMergedMachOFiles : p \in DOMAIN tree /\ tree[p].magic = "fat"

\* C13: no-archive mode: the shim is generated exactly when, comparing the
\* scratch app folder with the arm64 app folder, an entry differs whose path
\* is not in the FusionRecord; when the only differences are binaries fused
\* or already universal there is no shim, no app-x64 or app-arm64 sibling,
\* and the fused binary is at its original path.
C13_LooseShim ==
  /\ LooseMode /\ pc \in PastMerge =>
       IF Remaining # {} THEN entryAsar /\ ShimmedLoose(tmpApp)
       ELSE ~entryAsar /\ UnshimmedLoose(tmpApp)
  /\ LooseMode /\ out.state = "new" =>
       IF Remaining # {} THEN ShimmedLoose(out.tree) ELSE UnshimmedLoose(out.tree)
C13_Witness ==
  /\ LooseMode /\ out.state = "new" /\ Remaining = {}
  /\ LooseRoot \o BNode \in knownMergedMachOFiles
  /\ x64App[LooseRoot \o BNode].magic = "thin"
  /\ out.tree[LooseRoot \o BNode].magic = "fat"

(***************************************************************************)
(* Unpacked native binaries and mergeASARs.                                *)
(***************************************************************************)
UnpackedNode == UnpackedRoot \o BNode
\* The two archives list the same entries with the same content, except that
\* the native binary stored next to them is thin x64 on one side and thin
\* arm64 on the other.
OneUnpackedBinaryDiffers ==
  /\ MergeOn
  /\ UnpackedNode \in DOMAIN x64App /\ UnpackedNode \in DOMAIN arm64App
  /\ x64App[UnpackedNode] = Thin("x64") /\ arm64App[UnpackedNode] = Thin("arm64")
  /\ listPackage(x64App[AsarPath]) = listPackage(arm64App[AsarPath])
  /\ \A e \in listPackage(x64App[AsarPath]) \ {BNode} :
       SameContent(extractFile(x64App, AsarPath, e), extractFile(arm64App, AsarPath, e))
FusionsOf(p, e) == {c \in log.lipo : c.path = p \/ c.path = e}

IntegrityOf(tree) ==
  LET listing == CHOOSE l \in Orders(resourceAsars(tree)) : TRUE
  IN computeIntegrityData(tree, listing, [i \in 1..Len(listing) |-> i])
Ignored(p) == opts.infoPlistsToIgnore.set /\ minimatch(p, opts.infoPlistsToIgnore)
X64Plists == {p \in DOMAIN x64App : basename(p) = "Info.plist" /\ x64App[p].magic = "plist"}

\* C15: in a produced output, an Info.plist whose path matches
\* infoPlistsToIgnore is the x64 plist without any ElectronAsarIntegrity key,
\* and an Info.plist whose path does not match, or any Info.plist when no
\* pattern is given, is the x64 plist with ElectronAsarIntegrity set to the
\* integrity map computed over the merged Contents.
C15_PlistInjection ==
  out.state = "new" =>
    \A p \in X64Plists :
      IF Ignored(p)
        THEN out.tree[p] = StripIntegrity(x64App[p])
        ELSE out.tree[p] = WithIntegrity(StripIntegrity(x64App[p]), IntegrityOf(out.tree))

ListedPlists == PathsOf(plistFiles)
KeyValues(pl) == {parse(pl)[i] : i \in 1..Len(parse(pl))}
PlistStep(same(_)) ==
  pc = "integrity" =>
    IF \A p \in ListedPlists : same(p)
      THEN pc' = "snapshots" /\ err' = NoError
      ELSE /\ pc' = "cleanup" /\ err'.kind = "PlistMismatch"
           /\ err'.path \in ListedPlists /\ ~same(err'.path)
SameKeyValues(p) == KeyValues(x64App[p]) = KeyValues(arm64App[p])
SameDocument(p) == parse(x64App[p]) = parse(arm64App[p])

\* C16 as stated: the plist step goes on exactly when every Info.plist of the
\* x64 list has, ElectronAsarIntegrity apart, the same set of key/value pairs
\* on both sides whatever the order of the keys, and otherwise fails with an
\* error naming a plist whose sets differ.
C16_PlistKeySets == [][PlistStep(SameKeyValues)]_vars

\* C16: the plist step goes on exactly when every Info.plist of the x64 list
\* has, ElectronAsarIntegrity apart, the same keys with the same values in the
\* same order on both sides, and otherwise fails with an error naming a plist
\* for which that is not so; an ElectronAsarIntegrity key already present on
\* either side plays no part.
C16_PlistSerialisation == [][PlistStep(SameDocument)]_vars
C16_Witness ==
  /\ err.kind = "PlistMismatch" /\ err.path = PlistPath
  /\ SameKeyValues(PlistPath) /\ ~SameDocument(PlistPath)

(***************************************************************************)
(* The integrity map.                                                      *)
(***************************************************************************)
\* asar.getRawHeader(asarPath).headerString: the listing of the archive, each
\* entry with its flags and the digest of its data, without the data.
getRawHeader(archive) ==
  {[path |-> r.path, dir |-> r.dir, unpacked |-> r.unpacked, integrity |-> sha(r.data)] :
     r \in archive.meta}
\* generateAsarIntegrity(asarPath)
generateAsarIntegrity(archive) ==
  [algorithm |-> "SHA256", hash |-> <<"sha256", getRawHeader(archive)>>]

Injected(tree) == {p \in X64Plists : p \in DOMAIN tree /\ tree[p].meta # NoIntegrity}
MapOf(pl) == pl.meta[1]
Keys(m) == {m[i][1] : i \in 1..Len(m)}
ArchivesInResources(tree) == {p \in DOMAIN tree : IsPrefix(Resources, p) /\ endsWithAsar(p)}
OneEntryPerArchive(tree, m) ==
  /\ Keys(m) = {SubSeq(p, 2, Len(p)) : p \in ArchivesInResources(tree)}
  /\ Len(m) = Cardinality(ArchivesInResources(tree))

\* C17: the integrity map written into a plist of a produced output has one
\* entry for each .asar file under the output's Resources and no other entry,
\* keyed by the path relative to Contents, and the value of each entry is
\* {algorithm: 'SHA256', hash} with hash the digest of the archive's header
\* string.
C17_IntegrityMap ==
  out.state = "new" =>
    \A p \in Injected(out.tree) :
      LET m == MapOf(out.tree[p]) IN
      /\ OneEntryPerArchive(out.tree, m)
      /\ \A i \in 1..Len(m) :
           m[i][2] = generateAsarIntegrity(out.tree[<<"Contents">> \o m[i][1]])

Ascending(m) == \A i, j \in 1..Len(m) : i < j => localeCompare(m[i][1], m[j][1]) < 0
\* The map over a tree when the files are listed in the order of localeCompare
\* and the hashes are ready in that order.
CanonicalMap(tree) ==
  LET inOrder == CHOOSE l \in Orders(ArchivesInResources(tree)) :
                   \A i, j \in 1..Len(l) : i < j => localeCompare(l[i], l[j]) < 0
  IN [i \in 1..Len(inOrder) |-> <<SubSeq(inOrder[i], 2, Len(inOrder[i])), sha(tree[inOrder[i]])>>]

\* C18: the integrity map written into a plist is a function of the merged
\* tree alone: whatever order the archives were listed in and whatever order
\* their hashes completed in, its keys are in ascending order and it is the
\* map obtained from the listing in ascending order.
C18_Deterministic ==
  pc \in {"snapshots", "promote"} =>
    \A p \in Injected(tmpApp) :
      /\ Ascending(MapOf(tmpApp[p]))
      /\ MapOf(tmpApp[p]) = CanonicalMap(tmpApp)
C18_Witness ==
  /\ pc = "snapshots" /\ Injected(tmpApp) # {}
  /\ log.listing = <<AsarPath, X64AsarPath, Arm64AsarPath>>
  /\ Len(MapOf(tmpApp[PlistPath])) = Len(log.listing)

(***************************************************************************)
(* The scratch directories and the ordering file of mergeASARs.            *)
(***************************************************************************)
\* C19: when the invocation has ended, however mergeASARs ended (a unique
\* entry not covered by singleArchFiles, two differing files that are not
\* Mach-O, a failed fusion, or success), neither of its two scratch
\* directories is left behind.
C19_ScratchDirsRemoved ==
  pc = "done" => scratch.x64Dir # "exists" /\ scratch.arm64Dir # "exists"

ManifestFiles == [i \in 1..Len(orderingFile) |-> orderingFile[i][1]]
FilesOf(archive) == SelectSeq(listPackageSeq(archive), LAMBDA e : ~statFile(archive, e).dir)
SortedByPath(files) ==
  files = SelectSeq(EntryOrder, LAMBDA e : e \in {files[i] : i \in 1..Len(files)})

MergeBases == {b \in Bases : b.mode = "asar" /\ b.mergeASARs}
MergeCodes(base) ==
  {code \in Codes(base, MaxDiffs, 1) :
     \A j \in 1..Len(code) :
       Positions[code[j][1]] \in {<<"o", "singleArchFiles">>, <<"x", "pj">>, <<"a", "pj">>,
                                  <<"x", "extra">>, <<"a", "extra">>, <<"x", "bnode">>,
                                  <<"a", "bnode">>, <<"x", "lib">>, <<"a", "lib">>,
                                  <<"x", "rev">>, <<"a", "rev">>}}
InitMerge ==
  \E base \in MergeBases : \E code \in MergeCodes(base) :
    LET s == Decode(Nominal(base), code, 1) IN
    /\ opts = s.o
    /\ x64App = BundleTree(s.x)
    /\ arm64App = BundleTree(s.a)
    /\ out = Out("absent", EmptyTree)
    /\ tmpDir = "exists"
    /\ tmpApp = BundleTree(s.x)
    /\ entryAsar = FALSE
    /\ pc = "merge"
    /\ err = NoError
    /\ x64AsarMode = "HAS_ASAR"
    /\ x64Files = <<>>
    /\ arm64Files = <<>>
    /\ machoIdx = 1
    /\ knownMergedMachOFiles = {}
    /\ scratch = [x64Dir |-> "none", arm64Dir |-> "none"]
    /\ orderingFile = <<>>
    /\ log = NoLog
NextMerge == MergeASARsCheck \/ MergeASARsBuild
SpecMerge == InitMerge /\ [][NextMerge]_vars

Rebuilt == tmpApp[AsarPath]
FlaggedIn(tree, e) == e \in listPackage(tree[AsarPath]) /\ statFile(tree[AsarPath], e).unpacked

\* C21: in the archive mergeASARs has rebuilt, a file entry is unpacked if
\* and only if it carries the unpacked flag in the x64 archive or in the
\* arm64 archive, and no directory entry is unpacked.
C21_UnpackedEitherSide ==
  MergeOn /\ pc = "integrity" =>
    \A e \in listPackage(Rebuilt) :
      statFile(Rebuilt, e).unpacked <=>
        ~statFile(Rebuilt, e).dir /\ (FlaggedIn(x64App, e) \/ FlaggedIn(arm64App, e))

(***************************************************************************)
(* Two invocations at once.  The other invocation works on its own inputs, *)
(* its own output path and its own mkdtemp directories; the one path it    *)
(* shares with this invocation is os.tmpdir()/ordering.txt, which its      *)
(* generateOrderingConfig writes while this invocation is between writing  *)
(* the file and re-packing with it.                                        *)
(***************************************************************************)
OtherManifests ==
  {generateOrderingConfig(BundleArchive(Nominal(b).x), BundleArchive(Nominal(b).a)) : b \in MergeBases}
OtherInvocation ==
  /\ pc = "repack"
  /\ \E m \in OtherManifests : m # orderingFile /\ orderingFile' = m
  /\ UNCHANGED <<opts, x64App, arm64App, out, tmpDir, tmpApp, entryAsar, pc, err, x64AsarMode,
                 x64Files, arm64Files, machoIdx, knownMergedMachOFiles, scratch, log>>
NextPair == Next \/ OtherInvocation
SpecPair == Init /\ [][NextPair]_vars

OwnManifest == generateOrderingConfig(x64App[AsarPath], arm64App[AsarPath])

\* C22: with another invocation running at the same time on other inputs and
\* another output path, the archive this invocation rebuilds is the one it
\* rebuilds when run alone: its entries are unpacked and ordered as the
\* manifest of its own two archives says.
C22_NoInterference ==
  MergeOn /\ pc = "integrity" =>
    /\ \A e \in listPackage(Rebuilt) :
         statFile(Rebuilt, e).unpacked <=> Unpack(OwnManifest, e)
    /\ Rebuilt.body = headerOrder([i \in 1..Len(OwnManifest) |-> OwnManifest[i][1]])

RegularFiles(tree) == {p \in DOMAIN tree : tree[p].magic # "dir"}
IsArchiveName(p) ==
  basename(p) \in {"app.asar", "app-x64.asar", "app-arm64.asar", "webapp.asar", "web.asar"}
IsMachOContent(c) == c.magic = "thin" \/ c.magic = "fat"
IsSnapshotName(p) == basename(p) \in {"v8_context_snapshot.bin", "data.bin"}
CoveredSingleArch(p) ==
  /\ opts.singleArchFiles.set
  /\ IsPrefix(UnpackedRoot, p)
  /\ Rebase(p, UnpackedRoot, <<>>) \in opts.singleArchFiles.matches
\* The rules after the first two, first match wins.
LaterRules(p, c) ==
  IF IsMachOContent(c) THEN "MACHO"
  ELSE IF IsSnapshotName(p) THEN "SNAPSHOT"
  ELSE IF basename(p) = "Info.plist" THEN "INFO_PLIST"
  ELSE "PLAIN"
Classified(files, tree, rule(_, _)) ==
  /\ PathsOf(files) = RegularFiles(tree)
  /\ \A i \in 1..Len(files) :
       files[i].type = rule(files[i].relativePath, tree[files[i].relativePath])
WithSingleArch(p, c) ==
  IF IsArchiveName(p) THEN "APP_CODE"
  ELSE IF CoveredSingleArch(p) THEN "SINGLE_ARCH" ELSE LaterRules(p, c)
WithoutSingleArch(p, c) == IF IsArchiveName(p) THEN "APP_CODE" ELSE LaterRules(p, c)

Link(t) == [magic |-> "link", body |-> "-", meta |-> {t}]
TargetOf(c) == CHOOSE t \in c.meta : TRUE

AppRoot == <<"in", "X.app">>
FwDir == AppRoot \o <<"Contents", "A">>
FwLib == FwDir \o <<"lib">>
AppPlist == AppRoot \o <<"Contents", "Info.plist">>
SharedDir == <<"in", "shared">>
SharedFile == SharedDir \o <<"helper">>
CurrentLink == AppRoot \o <<"Contents", "Current">>
UpLink == FwDir \o <<"up">>
MissingPath == <<"in", "gone">>

\* The part of the file system every input shares.
Skeleton ==
  [p \in {<<"in">>, AppRoot, AppRoot \o <<"Contents">>, FwDir, SharedDir} |-> Dir]
    @@ Single(FwLib, Thin("x64")) @@ Single(AppPlist, Txt("plist")) @@ Single(SharedFile, Txt("helper"))

LinkTargets == {AppRoot, FwDir, FwLib, SharedFile, SharedDir, MissingPath, CurrentLink, UpLink}
LinkChoices == {NoFile} \cup {Link(t) : t \in LinkTargets}
FileSystems ==
  {Skeleton @@ [p \in {q \in {CurrentLink, UpLink} : (IF q = CurrentLink THEN c ELSE u) # NoFile}
                  |-> IF p = CurrentLink THEN c ELSE u] : c \in LinkChoices, u \in LinkChoices}

\* readdir order of every path the file systems can hold.
ReaddirOrder ==
  <<<<"in">>, AppRoot, AppRoot \o <<"Contents">>, FwDir, FwLib, UpLink, CurrentLink, AppPlist,
    SharedDir, SharedFile>>
readdir(fs, d) ==
  SelectSeq(ReaddirOrder, LAMBDA p : p \in DOMAIN fs /\ Len(p) = Len(d) + 1 /\ IsPrefix(d, p))

ELOOP == <<"ELOOP">>
ENOENT == <<"ENOENT">>
RECURSIVE follow(_, _, _)
follow(fs, p, hops) ==
  IF p \notin DOMAIN fs THEN ENOENT
  ELSE IF fs[p].magic # "link" THEN p
  ELSE IF hops = 0 THEN ELOOP
  ELSE follow(fs, TargetOf(fs[p]), hops - 1)
\* fs.realpath(p): p's parent is always a resolved directory here, so only the
\* last component can be a link. A chain longer than the number of paths loops.
realpath(fs, p) == follow(fs, p, Cardinality(DOMAIN fs))

\* fs.stat(p): follows links, so on a resolved path it never reports a link.
stat(fs, p) == fs[realpath(fs, p)]

RECURSIVE DotDots(_)
DotDots(n) == IF n = 0 THEN <<>> ELSE <<"..">> \o DotDots(n - 1)
RECURSIVE CommonLen(_, _)
CommonLen(a, b) ==
  IF a = <<>> \/ b = <<>> \/ Head(a) # Head(b) THEN 0 ELSE 1 + CommonLen(Tail(a), Tail(b))
\* path.relative(from, to)
relative(from, to) ==
  LET k == CommonLen(from, to) IN DotDots(Len(from) - k) \o SubSeq(to, k + 1, Len(to))

Walk(files, e) == [files |-> files, err |-> e]
\* traverse(), with the pending calls of the recursion kept as a stack.
RECURSIVE traverse(_, _, _, _, _)
traverse(fs, appPath, pending, visited, files) ==
  IF pending = <<>> THEN Walk(files, NoError)
  ELSE
    LET p == realpath(fs, Head(pending)) IN
    IF p \in {ELOOP, ENOENT} THEN Walk(files, Error(p[1], Head(pending), "classify"))
    ELSE IF p \in visited THEN traverse(fs, appPath, Tail(pending), visited, files)
    ELSE
      LET info == stat(fs, p) IN
      IF info.magic = "link" THEN traverse(fs, appPath, Tail(pending), visited \cup {p}, files)
      ELSE IF info.magic = "dir"
        THEN traverse(fs, appPath, readdir(fs, p) \o Tail(pending), visited \cup {p}, files)
        ELSE traverse(fs, appPath, Tail(pending), visited \cup {p},
                      Append(files, AppFile(relative(appPath, p), fileType(p, info))))

getAllAppFilesAt(fs, appPath) == traverse(fs, appPath, <<appPath>>, {}, <<>>)

InitClassify ==
  /\ x64App \in FileSystems
  /\ opts = Nominal(CHOOSE b \in Bases : TRUE).o
  /\ arm64App = EmptyTree
  /\ out = Out("absent", EmptyTree)
  /\ tmpDir = "none"
  /\ tmpApp = EmptyTree
  /\ entryAsar = FALSE
  /\ pc = "classify"
  /\ err = NoError
  /\ x64AsarMode = "-"
  /\ x64Files = <<>>
  /\ arm64Files = <<>>
  /\ machoIdx = 1
  /\ knownMergedMachOFiles = {}
  /\ scratch = [x64Dir |-> "none", arm64Dir |-> "none"]
  /\ orderingFile = <<>>
  /\ log = NoLog

\* await getAllAppFiles(appPath)
Classify ==
  /\ pc = "classify"
  /\ LET r == getAllAppFilesAt(x64App, AppRoot) IN
       /\ x64Files' = (IF r.err = NoError THEN r.files ELSE <<>>)
       /\ err' = r.err
  /\ pc' = "done"
  /\ UNCHANGED <<opts, x64App, arm64App, out, tmpDir, tmpApp, entryAsar, x64AsarMode,
                 arm64Files, machoIdx, knownMergedMachOFiles, scratch, orderingFile, log>>

NextClassify == Classify
SpecClassify == InitClassify /\ [][NextClassify]_vars

\* The regular files located under the bundle root: no link on the way.
UnderRoot(fs) == {p \in DOMAIN fs : IsPrefix(AppRoot, p) /\ fs[p].magic \notin {"dir", "link"}}
RecordsOf(files) == {files[i] : i \in 1..Len(files)}
InsideRoot(rel) == rel = <<>> \/ Head(rel) # ".."

\* C25: on every finite bundle tree, symbolic-link cycles included,
\* getAllAppFiles returns (it does not throw) exactly one record per regular
\* file located under the bundle root: links are skipped, so a file reachable
\* only through a link has no record and every relativePath stays inside the
\* root.
C25_LinksSkipped ==
  pc = "done" =>
    /\ err = NoError
    /\ Len(x64Files) = Cardinality(UnderRoot(x64App))
    /\ RecordsOf(x64Files) =
         {AppFile(relative(AppRoot, p), fileType(p, x64App[p])) : p \in UnderRoot(x64App)}
    /\ \A i \in 1..Len(x64Files) : InsideRoot(x64Files[i].relativePath)

(***************************************************************************)
(* C26: force and a failed invocation                                      *)
(***************************************************************************)
ForcedOverOld == opts.force /\ opts.outExists
Failed == pc = "done" /\ err # NoError
BeforeExistenceCheck == err.kind \in {"Platform", "NotAbsolute"}

LooseShimPromoted ==
  /\ pc = "done" /\ err = NoError /\ x64AsarMode = "NO_ASAR"
  /\ AsarPath \in DOMAIN out.tree

C28_MapMatchesOutput ==
  pc = "done" /\ err = NoError =>
    /\ out.state = "new"
    /\ \A p \in Injected(out.tree) : out.tree[p].meta = Integrity(IntegrityOf(out.tree))

C28_Witness ==
  /\ pc = "done" /\ err = NoError
  /\ Injected(out.tree) # {}
  /\ {AsarPath, X64AsarPath, Arm64AsarPath} \subseteq DOMAIN out.tree
  /\ x64App[SnapPath] # arm64App[SnapPath]
  /\ out.tree[SnapPath] = arm64App[SnapPath]

(***************************************************************************)
(* C29: archives that only one input has                                   *)
(***************************************************************************)
OtherArchives(tree) == {p \in DOMAIN tree : endsWithAsar(p) /\ p # AsarPath}
Arm64OnlyArchives == OtherArchives(arm64App) \ DOMAIN x64App
X64OnlyArchives == OtherArchives(x64App) \ DOMAIN arm64App
Succeeded == pc = "done" /\ err = NoError /\ out.state = "new"
KeyOf(p) == SubSeq(p, 2, Len(p))
Fingerprinted(p) == \A q \in Injected(out.tree) : KeyOf(p) \in Keys(MapOf(out.tree[q]))
NotFingerprinted(p) == \A q \in Injected(out.tree) : KeyOf(p) \notin Keys(MapOf(out.tree[q]))
\* Where the shim stage puts a file of an input's app folder.
InArm64Copy(p) == Rebase(p, LooseRoot, Arm64LooseRoot)
InX64Copy(p) == Rebase(p, LooseRoot, X64LooseRoot)

C29_WitnessKept ==
  /\ Succeeded /\ Injected(out.tree) # {}
  /\ WebappPath \in X64OnlyArchives /\ Fingerprinted(WebappPath)

(***************************************************************************)
(* C30: the loose-tree shim and differing plain files                      *)
(***************************************************************************)
LooseInputs == detectAsarMode(x64App) = "NO_ASAR" /\ detectAsarMode(arm64App) = "NO_ASAR"
PlainUnderApp(tree) ==
  {p \in Under(tree, LooseRoot) : tree[p].magic # "dir" /\ fileType(p, tree[p]) = "PLAIN"}
\* A plain file of an app folder that the other input lacks or holds with
\* other bytes.
PlainDiffers ==
  \E p \in PlainUnderApp(x64App) \cup PlainUnderApp(arm64App) :
    \/ p \notin DOMAIN x64App
    \/ p \notin DOMAIN arm64App
    \/ ~SameContent(x64App[p], arm64App[p])
AppFolderDifference(e) ==
  LET p == LooseRoot \o e
      c == IF p \in DOMAIN x64App THEN x64App[p] ELSE arm64App[p]
  IN c.magic = "dir" \/ fileType(p, c) \in {"SNAPSHOT", "APP_CODE", "MACHO"}

\* C30: in no-archive mode, when a plain file under Contents/Resources/app has
\* different content in the two inputs or exists on one side only, the merge
\* never reaches MergeLoose: once the bundles are classified it ends with the
\* error of CheckParity or of ReconcilePlain. So every output that holds a
\* loose-tree shim comes from inputs whose app folders differ only in
\* snapshot files, archives, binaries and entries that are not regular files.
C30_PlainNeverShimmed ==
  /\ LooseInputs /\ PlainDiffers =>
       /\ pc \notin {"macho", "merge", "integrity", "snapshots", "promote"}
       /\ pc = "done" => err # NoError
       /\ pc \in {"cleanup", "done"} /\ "classify" \in log.reads =>
            err.kind \in {"FileMismatch", "ShaMismatch"}
  /\ LooseShimPromoted =>
       /\ ~PlainDiffers
       /\ \A e \in differences(x64App, arm64App) : AppFolderDifference(e)

C30_Witness ==
  /\ LooseInputs /\ PlainDiffers
  /\ pc = "done" /\ err.kind = "ShaMismatch" /\ IsPrefix(LooseRoot, err.path)
  /\ tmpDir = "removed"

====
